---- MODULE Spec2Model ----
(***************************************************************************)
(* A model of the bevy_flurx scheduling core: the Runners of the leaf      *)
(* actions (delay::frames, wait::state::becomes, once::event::send), the   *)
(* race runner of wait::any, and the systems that drive Reactors           *)
(* (initialize_reactors, run_reactors, spawn_initialized_reactor) inside   *)
(* the host schedule order set up by FlurxPlugin::build.                   *)
(*                                                                         *)
(* Two specifications share the module:                                    *)
(*   SpecRunner  a Runner is constructed from an Action and its run is     *)
(*               called directly, once per tick;                           *)
(*   Spec        an App with FlurxPlugin is updated repeatedly; Reactors   *)
(*               are spawned in Startup or later and driven by the plugin. *)
(***************************************************************************)
EXTENDS Integers, Sequences, FiniteSets, TLC

\* ------------------------------------------------------------------ bounds
\* largest frame count given to delay::frames().with(N)
MaxFrames == 3
\* largest number of candidate actions given to wait::any
MaxCand == 3
\* largest number of direct run calls on the Runner under test
MaxCalls == 5
\* number of App::update calls
MaxTicks == 4
\* largest number of Reactor entities in the World
MaxReactors == 2
\* largest number of Runners constructed from remade actions
MaxRemakes == 2

\* --------------------------------------------------------- Output<T> cell
None == <<>>
Some(v) == <<v>>

\* the TestState of wait/state.rs
States == {"Phase1", "Phase2"}

\* ---------------------------------------------------------------- Actions
\* An Action is a seed bound to its input: kind names the seed, arg is the
\* bound input, actions the candidate list of wait::any.
Leaf(kind, arg) == [kind |-> kind, arg |-> arg, actions |-> <<>>]
FramesAction(n) == Leaf("frames", n)
UntilFalse == Leaf("until_false", 0)
OnceRun == Leaf("once_run", 0)
OnceSend == Leaf("once_send", 0)
OnceInit == Leaf("once_init", 0)
Becomes(s) == Leaf("becomes", s)
AnyAction(as) == [kind |-> "any", arg |-> 0, actions |-> as]
PipeAction(a, seed, same_call) ==
    [kind |-> "pipe", arg |-> 0, first |-> a, seed |-> seed, same_call |-> same_call]
SwitchAction(a0, a1) == [kind |-> "switch", arg |-> 0, branches |-> <<a0, a1>>]

\* ---------------------------------------------------------------- Runners
\* Runner state: frame_now is the Local<usize> of delay::frames, runners the
\* Vec<BoxedRunner> of AnyRunner, output the content of the Runner's Output
\* cell and slot the identity of that cell: 0 is the Output handed to the
\* constructor by its caller, Output_default(i) the i-th cell the constructor
\* creates itself.
Output_default(i) == i

\* CancellationToken: id is the identity of the token, cancelled its flag.
\* Token0 is the token the owner of a Runner passes to run.
Token0 == [id |-> 0, cancelled |-> FALSE]

LeafRunner(a) ==
    [kind |-> a.kind, arg |-> a.arg, frame_now |-> 0, runners |-> <<>>, output |-> None,
     slot |-> 0]

\* delay::frames with the comparison made strict
frames_strict(n, frame_now) ==
    LET now == frame_now + 1
    IN  [frame_now |-> now, fin |-> n < now]

\* delay::frames: the system given to wait::until. Returns the new Local and
\* the system's verdict.
frames(n, frame_now) ==
    LET now == frame_now + 1
    IN  [frame_now |-> now, fin |-> n <= now]

\* wait::state::becomes with the comparison negated
becomes_ne(expect, state_now) == state_now # expect

\* wait::state::becomes: the system given to wait::until.
becomes(expect, state_now) == state_now = expect

\* once::event::send whose system never writes the event
send_dropped(w, owner) == w

\* once::event::send: the system given to once::run_with. The World's events
\* are the AppExit events sent so far, each tagged with the Reactor whose
\* action sent it.
send(w, owner) == [w EXCEPT !.events = Append(@, owner)]

\* once::non_send::init::<AppExit>() as used by the tests: the resource is
\* present afterwards. owner tags the Reactor whose action inserted it.
init_non_send(w, owner) == [w EXCEPT !.non_send = @ \cup {owner}]

\* One run call of a leaf Runner (wait::until / once::run wrappers around the
\* systems above).
RunLeaf(r, w, owner, token) ==
    IF token.cancelled THEN [runner |-> r, world |-> w, fin |-> FALSE] ELSE
    CASE r.kind = "frames" ->
           LET f == frames(r.arg, r.frame_now)
           IN  [runner |-> [r EXCEPT !.frame_now = f.frame_now], world |-> w, fin |-> f.fin]
      [] r.kind = "becomes" ->
           [runner |-> r, world |-> w, fin |-> becomes(r.arg, w.state)]
      [] r.kind = "until_false" ->
           [runner |-> r, world |-> w, fin |-> FALSE]
      [] r.kind = "once_run" ->
           [runner |-> r, world |-> w, fin |-> TRUE]
      [] r.kind = "once_send" ->
           [runner |-> r, world |-> send(w, owner), fin |-> TRUE]
      [] r.kind = "once_init" ->
           [runner |-> r, world |-> init_non_send(w, owner), fin |-> TRUE]
      [] r.kind = "once_succ" ->
           [runner |-> r, world |-> w, fin |-> TRUE]

\* the loop of AnyRunner::run without its break: every candidate is run and
\* the last one that finished is reported
RECURSIVE AnyScan_no_break(_, _, _, _, _)
AnyScan_no_break(rs, i, w, owner, token) ==
    IF i > Len(rs)
    THEN [runners |-> rs, world |-> w, finished |-> None, invoked |-> <<>>]
    ELSE LET c == RunLeaf(rs[i], w, owner, token)
             rs1 == [rs EXCEPT ![i] = c.runner]
             rest == AnyScan_no_break(rs1, i + 1, c.world, owner, token)
         IN  [rest EXCEPT !.invoked = <<[index |-> i - 1, ret |-> c.fin, token |-> token.id]>> \o @,
                          !.finished = IF c.fin /\ @ = None THEN Some(i - 1) ELSE @]

\* the loop of AnyRunner::run handing every candidate a token of its own
\* making instead of the token it was called with
RECURSIVE AnyScan_fresh_token(_, _, _, _, _)
AnyScan_fresh_token(rs, i, w, owner, token) ==
    IF i > Len(rs)
    THEN [runners |-> rs, world |-> w, finished |-> None, invoked |-> <<>>]
    ELSE LET c == RunLeaf(rs[i], w, owner, Token0)
             rs1 == [rs EXCEPT ![i] = c.runner]
         IN  IF c.fin
             THEN [runners |-> rs1, world |-> c.world, finished |-> Some(i - 1),
                   invoked |-> <<[index |-> i - 1, ret |-> TRUE, token |-> token.id]>>]
             ELSE LET rest == AnyScan_fresh_token(rs1, i + 1, c.world, owner, token)
                  IN  [rest EXCEPT !.invoked =
                                     <<[index |-> i - 1, ret |-> FALSE, token |-> token.id]>> \o @]

\* the loop of AnyRunner::run with the break taken after the first candidate
\* whatever it returned
AnyScan_first_only(rs, i, w, owner, token) ==
    IF i > Len(rs)
    THEN [runners |-> rs, world |-> w, finished |-> None, invoked |-> <<>>]
    ELSE LET c == RunLeaf(rs[i], w, owner, token)
         IN  [runners |-> [rs EXCEPT ![i] = c.runner], world |-> c.world,
              finished |-> IF c.fin THEN Some(i - 1) ELSE None,
              invoked |-> <<[index |-> i - 1, ret |-> c.fin, token |-> token.id]>>]

\* The loop of AnyRunner::run: candidates are run in index order starting at
\* position i (1-based here, the reported index is the 0-based i - 1) and the
\* scan stops at the first one that returns true.
RECURSIVE AnyScan(_, _, _, _, _)
AnyScan(rs, i, w, owner, token) ==
    IF i > Len(rs)
    THEN [runners |-> rs, world |-> w, finished |-> None, invoked |-> <<>>]
    ELSE LET c == RunLeaf(rs[i], w, owner, token)
             rs1 == [rs EXCEPT ![i] = c.runner]
         IN  IF c.fin
             THEN [runners |-> rs1, world |-> c.world, finished |-> Some(i - 1),
                   invoked |-> <<[index |-> i - 1, ret |-> TRUE, token |-> token.id]>>]
             ELSE LET rest == AnyScan(rs1, i + 1, c.world, owner, token)
                  IN  [rest EXCEPT !.invoked = <<[index |-> i - 1, ret |-> FALSE, token |-> token.id]>> \o @]

\* AnyRunner::run without self.runners.clear()
AnyRunner_run_no_clear(r, w, owner, token) ==
    LET scan == AnyScan(r.runners, 1, w, owner, token)
    IN  [runner |-> [r EXCEPT !.runners = scan.runners,
                              !.output = IF scan.finished # None THEN scan.finished ELSE @],
         world |-> scan.world, fin |-> scan.finished # None, invoked |-> scan.invoked]

\* AnyRunner::run setting the Output inside the loop, for every candidate it
\* has run, instead of after a winner was found
AnyRunner_run_set_in_loop(r, w, owner, token) ==
    LET scan == AnyScan(r.runners, 1, w, owner, token)
        last == IF scan.invoked = <<>> THEN r.output
                ELSE Some(scan.invoked[Len(scan.invoked)].index)
    IN  IF scan.finished # None
        THEN [runner |-> [r EXCEPT !.runners = <<>>, !.output = last],
              world |-> scan.world, fin |-> TRUE, invoked |-> scan.invoked]
        ELSE [runner |-> [r EXCEPT !.runners = scan.runners, !.output = last],
              world |-> scan.world, fin |-> FALSE, invoked |-> scan.invoked]

\* AnyRunner::run
AnyRunner_run(r, w, owner, token) ==
    LET scan == AnyScan(r.runners, 1, w, owner, token)
    IN  IF scan.finished # None
        THEN [runner |-> [r EXCEPT !.runners = <<>>, !.output = scan.finished],
              world |-> scan.world, fin |-> TRUE, invoked |-> scan.invoked]
        ELSE [runner |-> [r EXCEPT !.runners = scan.runners],
              world |-> scan.world, fin |-> FALSE, invoked |-> scan.invoked]

RECURSIVE Run(_, _, _, _)

\* ------------------------------------------------------------ pipe, switch
\* ActionSeed::with(input) for the seeds piped into: delay::frames() waits
\* `input` frames, once_succ is a once::run whose system returns input + 1.
With(seed, input) == Leaf(seed, input)

\* the stage entry a combinator's run call logs: which inner Runner it ran
\* (0 or 1), what that Runner returned and the token it was run with
Stage(i, ret, token) == [index |-> i, ret |-> ret, token |-> token.id]

\* the second stage of a pipe: one run call of the second Runner, whose Output
\* is the Output of the pipe
PipeSecond(r, w, owner, token) ==
    LET b == Run(r.second[1], w, owner, token)
    IN  [runner |-> [r EXCEPT !.second = Some(b.runner),
                              !.output = IF b.fin THEN b.runner.output ELSE @],
         world |-> b.world, fin |-> b.fin, invoked |-> <<Stage(1, b.fin, token)>>]

\* the pipe runner constructing its second Runner from the seed's default
\* input instead of the first Runner's Output
PipeRunner_run_unbound(r, w, owner, token) ==
    IF r.second # None THEN PipeSecond(r, w, owner, token)
    ELSE LET a == Run(r.first, w, owner, token)
             logA == <<Stage(0, a.fin, token)>>
         IN  IF ~a.fin
             THEN [runner |-> [r EXCEPT !.first = a.runner], world |-> a.world,
                   fin |-> FALSE, invoked |-> logA]
             ELSE LET r1 == [r EXCEPT !.first = [a.runner EXCEPT !.output = None],
                                      !.second = Some(LeafRunner(With(r.seed, 0)))]
                  IN  IF ~r.same_call
                      THEN [runner |-> r1, world |-> a.world, fin |-> FALSE, invoked |-> logA]
                      ELSE LET b == PipeSecond(r1, a.world, owner, token)
                           IN  [b EXCEPT !.invoked = logA \o @]

\* The Runner of pipe: drives the first Runner; once it reports finished,
\* takes its Output y, constructs the second Runner from the seed bound to y
\* and from then on drives the second. same_call tells whether the second
\* Runner gets its first run in the call in which the first finished or in
\* the next call.
PipeRunner_run(r, w, owner, token) ==
    IF r.second # None THEN PipeSecond(r, w, owner, token)
    ELSE LET a == Run(r.first, w, owner, token)
             logA == <<Stage(0, a.fin, token)>>
         IN  IF ~a.fin
             THEN [runner |-> [r EXCEPT !.first = a.runner], world |-> a.world,
                   fin |-> FALSE, invoked |-> logA]
             ELSE LET y == a.runner.output[1]
                      r1 == [r EXCEPT !.first = [a.runner EXCEPT !.output = None],
                                      !.second = Some(LeafRunner(With(r.seed, y)))]
                  IN  IF ~r.same_call
                      THEN [runner |-> r1, world |-> a.world, fin |-> FALSE, invoked |-> logA]
                      ELSE LET b == PipeSecond(r1, a.world, owner, token)
                           IN  [b EXCEPT !.invoked = logA \o @]

\* the switch runner staying with branch 0 once branch 0 has made progress
SwitchRunner_run_sticky(r, w, owner, token) ==
    LET i == IF r.branches[1].frame_now > 0 THEN 1 ELSE r.flag + 1
        b == Run(r.branches[i], w, owner, token)
    IN  [runner |-> [r EXCEPT !.branches[i] = b.runner,
                              !.output = IF b.fin THEN b.runner.output ELSE @],
         world |-> b.world, fin |-> b.fin, invoked |-> <<Stage(i - 1, b.fin, token)>>]

\* The Runner of switch: two pre-built Runners and a flag toggled from
\* outside; every run call reads the flag and delegates to the branch it
\* selects.
SwitchRunner_run(r, w, owner, token) ==
    LET i == r.flag + 1
        b == Run(r.branches[i], w, owner, token)
    IN  [runner |-> [r EXCEPT !.branches[i] = b.runner,
                              !.output = IF b.fin THEN b.runner.output ELSE @],
         world |-> b.world, fin |-> b.fin, invoked |-> <<Stage(i - 1, b.fin, token)>>]

\* the Output value of a finished leaf Runner
LeafOutput(r) == IF r.kind = "once_succ" THEN r.arg + 1 ELSE 0

\* Runner::run, dispatched on the boxed Runner's type.
Run(r, w, owner, token) ==
    IF r.kind = "any" THEN AnyRunner_run(r, w, owner, token)
    ELSE IF r.kind = "pipe" THEN PipeRunner_run(r, w, owner, token)
    ELSE IF r.kind = "switch" THEN SwitchRunner_run(r, w, owner, token)
    ELSE LET l == RunLeaf(r, w, owner, token)
         IN  [runner |-> [l.runner EXCEPT !.output = IF l.fin THEN Some(LeafOutput(l.runner))
                                                    ELSE @],
              world |-> l.world, fin |-> l.fin, invoked |-> <<>>]

\* wait::any without the emptiness check
any_unchecked(actions) ==
    [panic |-> FALSE,
     runner |-> Some([kind |-> "any", arg |-> 0, frame_now |-> 0,
                      runners |-> [i \in 1..Len(actions) |->
                                     [LeafRunner(actions[i]) EXCEPT !.slot = Output_default(i)]],
                      output |-> None, slot |-> 0])]

\* wait::any handing every candidate the Output it was given itself
any_shared_output(actions) ==
    LET runners == [i \in 1..Len(actions) |-> LeafRunner(actions[i])]
    IN  IF Len(runners) = 0
        THEN [panic |-> TRUE, runner |-> None]
        ELSE [panic |-> FALSE,
              runner |-> Some([kind |-> "any", arg |-> 0, frame_now |-> 0,
                               runners |-> runners, output |-> None, slot |-> 0])]

\* wait::any: the constructor given to ActionSeed::new. One Runner per
\* candidate action; panics when there is none.
any(actions) ==
    LET runners == [i \in 1..Len(actions) |->
                       [LeafRunner(actions[i]) EXCEPT !.slot = Output_default(i)]]
    IN  IF Len(runners) = 0
        THEN [panic |-> TRUE, runner |-> None]
        ELSE [panic |-> FALSE,
              runner |-> Some([kind |-> "any", arg |-> 0, frame_now |-> 0,
                               runners |-> runners, output |-> None, slot |-> 0])]

RECURSIVE into_runner(_)

\* pipe: the constructor of the piped action. The first Runner is built, the
\* second only once the first has finished.
pipe(first, seed, same_call) ==
    LET a == into_runner(first)
    IN  IF a.panic THEN a
        ELSE [panic |-> FALSE,
              runner |-> Some([kind |-> "pipe", arg |-> 0, first |-> a.runner[1],
                               second |-> None, seed |-> seed, same_call |-> same_call,
                               output |-> None, slot |-> 0])]

\* switch: the constructor. Both branches are built; the flag starts at
\* branch 0.
switch(branches) ==
    [panic |-> FALSE,
     runner |-> Some([kind |-> "switch", arg |-> 0, flag |-> 0,
                      branches |-> [i \in 1..2 |-> into_runner(branches[i]).runner[1]],
                      output |-> None, slot |-> 0])]

\* Action::into_runner
into_runner(a) ==
    IF a.kind = "any" THEN any(a.actions)
    ELSE IF a.kind = "pipe" THEN pipe(a.first, a.seed, a.same_call)
    ELSE IF a.kind = "switch" THEN switch(a.branches)
    ELSE [panic |-> FALSE, runner |-> Some(LeafRunner(a))]

\* ------------------------------------------------------------------ remake
\* Output::default() in a store cs of Output cells: a new empty cell, named by
\* its position
NewOutput(cs) == [cells |-> Append(cs, None), cell |-> Len(cs) + 1]

\* ActionSeed::create_runner(input, token, output): the inner Runner, with the
\* token and the Output cell it was constructed on
create_runner(seed, input, token, output) ==
    [runner |-> [LeafRunner(With(seed, input)) EXCEPT !.slot = output], token |-> token.id]

\* f(runner, o1, token, output): the wrapping Runner keeps the inner Runner,
\* the cell o1, the token and the cell of the composed Output it was given
Wrapper(inner, o1, token, output) ==
    [kind |-> "remade", inner |-> inner.runner, inner_token |-> inner.token,
     o1 |-> o1, token |-> token.id, output |-> output, calls |-> 0, done |-> FALSE]

\* remake constructing the inner Runner on the composed Output
remake_on_output(seed, input, token, output, cs) ==
    LET o1 == NewOutput(cs)
        runner == create_runner(seed, input, token, output)
    IN  [cells |-> o1.cells, runner |-> Wrapper(runner, o1.cell, token, output)]

\* Remake for ActionSeed (and, with the input the Action carries, for Action):
\* the constructor given to ActionSeed::new
remake(seed, input, token, output, cs) ==
    LET o1 == NewOutput(cs)
        runner == create_runner(seed, input, token, o1.cell)
    IN  [cells |-> o1.cells, runner |-> Wrapper(runner, o1.cell, token, output)]

\* Runner::run of the wrapping Runner: it runs the inner Runner, which sets
\* its Output cell when it finishes; the wrapper takes a value it finds in o1
\* and sets the composed Output. log lists the cell accesses in order.
RemadeRunner_run(c, cs, w, token) ==
    LET inner == RunLeaf(c.inner, w, 0, token)
        cs1 == IF inner.fin
               THEN [cs EXCEPT ![c.inner.slot] = Some(LeafOutput(c.inner))] ELSE cs
        log1 == IF inner.fin THEN <<[cell |-> c.inner.slot, by |-> "inner"]>> ELSE <<>>
        found == cs1[c.o1] # None
        cs2 == IF found THEN [cs1 EXCEPT ![c.o1] = None, ![c.output] = cs1[c.o1]] ELSE cs1
        log2 == IF found
                THEN <<[cell |-> c.o1, by |-> "take"], [cell |-> c.output, by |-> "wrapper"]>>
                ELSE <<>>
    IN  [runner |-> [c EXCEPT !.inner = inner.runner, !.calls = @ + 1, !.done = found],
         cells |-> cs2, world |-> inner.world, fin |-> found, log |-> log1 \o log2]

\* ------------------------------------------------------------------ state
VARIABLES
    \* SpecRunner: a Runner under test, run directly
    hPc,        \* "start", "ready" (Runner constructed) or "panicked"
    hAction,    \* the Action the Runner is constructed from
    hRunner,    \* Option<Runner>
    hWorld,     \* the World handed to run
    hRets,      \* history: the value returned by each run call, in order
    hCalls,     \* history: per run call, the candidates invoked and their results
    hToken,     \* the CancellationToken the owner passes to run
    \* Spec: an App with FlurxPlugin
    sched,      \* the schedule App::update is about to run; "Idle" between updates
    tick,       \* number of App::update calls begun
    reactors,   \* the Reactor entities of the World, in query iteration order
    registry,   \* per schedule label, the Runners registered on it
    world,      \* the resources of the World the actions touch
    share,      \* Reactors whose coroutine has executed its `s2.set(true)`
    driveLog,   \* history: every scheduler.run_sync call
    \* SpecRemake: remade actions constructed and run directly
    cells,      \* the Output cells allocated so far; a cell's identity is its position
    built,      \* the Runners constructed from remade actions, in order
    writes      \* history: every Output::set and Output::take on a cell

hvars == <<hPc, hAction, hRunner, hWorld, hRets, hCalls, hToken>>
avars == <<sched, tick, reactors, registry, world, share, driveLog>>
mvars == <<cells, built, writes>>
vars == <<hPc, hAction, hRunner, hWorld, hRets, hCalls, hToken,
          sched, tick, reactors, registry, world, share, driveLog,
          cells, built, writes>>

World0 == [state |-> "Phase1", events |-> <<>>, non_send |-> {}]

\* the schedule labels the coroutines of the tests wait on
Labels == {"First", "Update"}

\* ------------------------------------------------- SpecRunner: direct runs
\* candidate actions of a race under test
CandidateActions ==
    {FramesAction(n) : n \in 0..MaxFrames} \cup {UntilFalse, OnceRun, OnceSend}

RECURSIVE SeqsUpTo(_, _)
SeqsUpTo(S, n) ==
    IF n = 0 THEN {<<>>}
    ELSE LET shorter == SeqsUpTo(S, n - 1)
         IN  shorter \cup {Append(q, x) : q \in {t \in shorter : Len(t) = n - 1}, x \in S}

RunnerActions ==
    CandidateActions \cup {AnyAction(as) : as \in SeqsUpTo(CandidateActions, MaxCand)}

InitRunner ==
    /\ hPc = "start"
    /\ hAction \in RunnerActions
    /\ hRunner = None
    /\ hWorld = World0
    /\ hRets = <<>>
    /\ hCalls = <<>>
    /\ hToken = Token0
    /\ sched = "Idle"
    /\ tick = 0
    /\ reactors = <<>>
    /\ registry = [l \in Labels |-> <<>>]
    /\ world = World0
    /\ share = {}
    /\ driveLog = <<>>
    /\ cells = <<>>
    /\ built = <<>>
    /\ writes = <<>>

\* ActionSeed::with(input).into_runner(output): constructs the Runner; runs
\* nothing.
Construct ==
    /\ hPc = "start"
    /\ LET c == into_runner(hAction)
       IN  /\ hPc' = IF c.panic THEN "panicked" ELSE "ready"
           /\ hRunner' = c.runner
    /\ UNCHANGED <<hAction, hWorld, hRets, hCalls, hToken>>
    /\ UNCHANGED avars
    /\ UNCHANGED mvars

HFinished == \E k \in 1..Len(hRets) : hRets[k]

\* One tick: the owner calls run once. A leaf Runner is not called again once
\* it returned true; the race runner may be.
RunOnce ==
    /\ hPc = "ready"
    /\ Len(hRets) < MaxCalls
    /\ hAction.kind = "any" \/ ~HFinished
    /\ LET res == Run(hRunner[1], hWorld, 0, hToken)
       IN  /\ hRunner' = Some(res.runner)
           /\ hWorld' = res.world
           /\ hRets' = Append(hRets, res.fin)
           /\ hCalls' = Append(hCalls, res.invoked)
    /\ UNCHANGED <<hPc, hAction, hToken>>
    /\ UNCHANGED avars
    /\ UNCHANGED mvars

NextRunner == Construct \/ RunOnce

SpecRunner == InitRunner /\ [][NextRunner]_vars

\* CancellationToken::cancel, requested by the owner at any time: before the
\* Runner is constructed, before its first run call or between two calls.
Cancel ==
    /\ ~hToken.cancelled
    /\ hPc # "panicked"
    /\ hToken' = [hToken EXCEPT !.cancelled = TRUE]
    /\ UNCHANGED <<hPc, hAction, hRunner, hWorld, hRets, hCalls>>
    /\ UNCHANGED avars
    /\ UNCHANGED mvars

NextCancel == Construct \/ RunOnce \/ Cancel

SpecCancel == InitRunner /\ [][NextCancel]_vars

\* ------------------------------------------- SpecPipe, SpecSwitch: direct runs
\* everything of the initial state but the Action under test
InitRest ==
    /\ hPc = "start"
    /\ hRunner = None
    /\ hWorld = World0
    /\ hRets = <<>>
    /\ hCalls = <<>>
    /\ hToken = Token0
    /\ sched = "Idle"
    /\ tick = 0
    /\ reactors = <<>>
    /\ registry = [l \in Labels |-> <<>>]
    /\ world = World0
    /\ share = {}
    /\ driveLog = <<>>
    /\ cells = <<>>
    /\ built = <<>>
    /\ writes = <<>>

\* the seeds piped into
PipeSeeds == {"frames", "once_succ"}

\* pipes under test: a leaf action or a race, piped into a seed
PipeActions ==
    {PipeAction(a, seed, same_call) :
        a \in RunnerActions \ {AnyAction(<<>>)}, seed \in PipeSeeds, same_call \in BOOLEAN}

InitPipe == hAction \in PipeActions /\ InitRest

SpecPipe == InitPipe /\ [][NextRunner]_vars

\* switches under test: two leaf actions
SwitchActions == {SwitchAction(a0, a1) : a0 \in CandidateActions, a1 \in CandidateActions}

InitSwitch == hAction \in SwitchActions /\ InitRest

\* the flag of the switch is toggled from outside, between two run calls
Toggle ==
    /\ hPc = "ready"
    /\ ~HFinished
    /\ hRunner' = Some([hRunner[1] EXCEPT !.flag = 1 - @])
    /\ UNCHANGED <<hPc, hAction, hWorld, hRets, hCalls, hToken>>
    /\ UNCHANGED avars
    /\ UNCHANGED mvars

NextSwitch == Construct \/ RunOnce \/ Toggle

SpecSwitch == InitSwitch /\ [][NextSwitch]_vars

\* --------------------------------------------------- SpecRemake: direct runs
\* the actions remade: delay::frames, once::event::send and a once action
\* returning its input + 1
RemakeActions ==
    {FramesAction(n) : n \in 0..MaxFrames} \cup {OnceSend, With("once_succ", 1)}

InitRemake == hAction = OnceRun /\ InitRest

\* action.remake(f).into_runner(token, Output::default()): the caller creates
\* the composed Output and the constructor of remake builds the Runner. at
\* records the state the construction started from.
ConstructRemade ==
    /\ Len(built) < MaxRemakes
    /\ \E a \in RemakeActions :
          LET o2 == NewOutput(cells)
              c == remake(a.kind, a.arg, hToken, o2.cell, o2.cells)
          IN  /\ cells' = c.cells
              /\ built' = Append(built, [runner |-> c.runner, action |-> a,
                                         at |-> [cells |-> Len(cells), world |-> hWorld,
                                                 writes |-> Len(writes)]])
    /\ UNCHANGED writes
    /\ UNCHANGED hvars
    /\ UNCHANGED avars

\* one run call of a constructed Runner that has not finished
RunRemade ==
    \E i \in 1..Len(built) :
        /\ ~built[i].runner.done
        /\ built[i].runner.calls < MaxCalls
        /\ LET res == RemadeRunner_run(built[i].runner, cells, hWorld, hToken)
           IN  /\ built' = [built EXCEPT ![i].runner = res.runner]
               /\ cells' = res.cells
               /\ hWorld' = res.world
               /\ writes' = writes \o [k \in 1..Len(res.log) |->
                                         [cell |-> res.log[k].cell, by |-> res.log[k].by,
                                          con |-> i]]
        /\ UNCHANGED <<hPc, hAction, hRunner, hRets, hCalls, hToken>>
        /\ UNCHANGED avars

NextRemake == ConstructRemade \/ RunRemade

SpecRemake == InitRemake /\ [][NextRemake]_vars

\* ------------------------------------------------ Spec: the App and plugin
\* Coroutine bodies: a sequence of `task.will(label, action).await`
\* statements and `s2.set(true)` statements.
\* `if index == i { task.will(label, action).await; }` is a "will_if".
Will(label, action) == [op |-> "will", label |-> label, action |-> action, index |-> 0]
WillIf(i, label, action) == [op |-> "will_if", label |-> label, action |-> action, index |-> i]
SetShare == [op |-> "set", label |-> "", action |-> OnceRun, index |-> 0]

\* src/action/once/event.rs, it_s1_to_be_true
ProgOnceThenSet == <<Will("Update", OnceRun), SetShare>>
\* src/action/delay.rs, delay_2frames (with N frames, on schedule l)
ProgDelayThenInit(l, n) == <<Will(l, FramesAction(n)), Will("Update", OnceInit)>>
\* src/action/wait/state.rs, wait_until_state_becomes_phase2
ProgBecomesThenInit == <<Will("First", Becomes("Phase2")), Will("Update", OnceInit)>>
\* src/action/wait/any.rs, return_0 and return_1
ProgAny0ThenSend ==
    <<Will("Update", AnyAction(<<FramesAction(1), FramesAction(3), UntilFalse>>)),
      WillIf(0, "Update", OnceSend)>>
ProgAny1ThenSend ==
    <<Will("Update", AnyAction(<<UntilFalse, OnceRun>>)), WillIf(1, "Update", OnceSend)>>
\* src/action/once/event.rs, send_event
ProgSend == <<Will("First", OnceSend)>>

\* the coroutines of Reactors spawned in Startup
Programs ==
    {<<>>, ProgOnceThenSet, ProgBecomesThenInit, ProgAny0ThenSend, ProgAny1ThenSend,
     ProgSend}
    \cup {ProgDelayThenInit("First", n) : n \in 0..MaxFrames}

\* the coroutines of Reactors spawned in mid-cycle
MidPrograms == {<<>>, ProgOnceThenSet, ProgDelayThenInit("Update", 1)}

\* Reactor::schedule(f): a Reactor whose coroutine has not been polled
\* (pc = 0); pc is the statement the coroutine is at once it has been.
\* spawn, finAt and doneAt are history: where and when it was spawned, for
\* each statement the tick and the number of drives so far at which its
\* Runner finished, and the number of the drive that completed the coroutine.
Reactor_schedule(prog, at, t) ==
    [prog |-> prog, pc |-> 0, registered |-> FALSE, output |-> None, last |-> None,
     initialized |-> FALSE,
     spawn |-> [at |-> at, tick |-> t, marked |-> FALSE],
     finAt |-> [j \in 1..Len(prog) |-> [tick |-> 0, drives |-> 0]],
     doneAt |-> 0]

Completed(re) == re.pc > Len(re.prog)

RECURSIVE CountBy(_, _, _, _)
CountBy(log, i, by, t) ==
    IF log = <<>> THEN 0
    ELSE (IF /\ Head(log).reactor = i
             /\ by \in {"", Head(log).by}
             /\ t \in {0, Head(log).tick}
          THEN 1 ELSE 0) + CountBy(Tail(log), i, by, t)

\* number of drives of Reactor i so far
Drives(log, i) == CountBy(log, i, "", 0)

\* a poll that starts a completed coroutine over instead of returning
RECURSIVE Poll_restart(_, _)
Poll_restart(st, id) ==
    LET re == st.reactors[id]
    IN  IF Completed(re)
        THEN IF re.prog = <<>> THEN st
             ELSE Poll_restart([st EXCEPT !.reactors[id].pc = 1], id)
        ELSE IF re.pc = 0 THEN Poll_restart([st EXCEPT !.reactors[id].pc = 1], id)
        ELSE LET stmt == re.prog[re.pc]
             IN  IF stmt.op = "set"
                 THEN LET next == [st EXCEPT !.reactors[id].pc = @ + 1,
                                             !.share = @ \cup {id}]
                      IN  IF Completed(next.reactors[id]) THEN next
                          ELSE Poll_restart(next, id)
                 ELSE IF stmt.op = "will_if" /\ re.last # Some(stmt.index)
                 THEN LET next == [st EXCEPT !.reactors[id].pc = @ + 1]
                      IN  IF Completed(next.reactors[id]) THEN next
                          ELSE Poll_restart(next, id)
                 ELSE IF ~re.registered
                 THEN [st EXCEPT !.reactors[id].registered = TRUE,
                                 !.registry[stmt.label] =
                                     Append(@, [runner |-> into_runner(stmt.action).runner[1],
                                                owner |-> id])]
                 ELSE IF re.output = None THEN st
                 ELSE LET next == [st EXCEPT !.reactors[id].pc = @ + 1,
                                             !.reactors[id].registered = FALSE,
                                             !.reactors[id].last = re.output,
                                             !.reactors[id].output = None]
                      IN  IF Completed(next.reactors[id]) THEN next
                          ELSE Poll_restart(next, id)

\* One poll of the coroutine of Reactor id. At a `will` statement the selector
\* registers the action's Runner on the statement's schedule label the first
\* time it is polled, and afterwards takes the Output if the Runner has set
\* it; the coroutine then continues within the same poll.
\* st bundles the World's parts: reactors, registry, share, log.
RECURSIVE Poll(_, _)
Poll(st, id) ==
    LET re == st.reactors[id]
    IN  IF Completed(re) THEN st
        ELSE IF re.pc = 0 THEN Poll([st EXCEPT !.reactors[id].pc = 1], id)
        ELSE LET stmt == re.prog[re.pc]
             IN  IF stmt.op = "set"
                 THEN Poll([st EXCEPT !.reactors[id].pc = @ + 1,
                                      !.share = @ \cup {id}], id)
                 ELSE IF stmt.op = "will_if" /\ re.last # Some(stmt.index)
                 THEN Poll([st EXCEPT !.reactors[id].pc = @ + 1], id)
                 ELSE IF ~re.registered
                 THEN [st EXCEPT !.reactors[id].registered = TRUE,
                                 !.registry[stmt.label] =
                                     Append(@, [runner |-> into_runner(stmt.action).runner[1],
                                                owner |-> id])]
                 ELSE IF re.output = None THEN st
                 ELSE Poll([st EXCEPT !.reactors[id].pc = @ + 1,
                                      !.reactors[id].registered = FALSE,
                                      !.reactors[id].last = re.output,
                                      !.reactors[id].output = None], id)

\* reactor.scheduler.run_sync(world_ptr) on Reactor id, called by `by`
run_sync(st, id, by, t) ==
    LET polled == Poll(st, id)
        n == Drives(st.log, id) + 1
        newlyDone == Completed(polled.reactors[id]) /\ ~Completed(st.reactors[id])
    IN  [polled EXCEPT !.log = Append(@, [reactor |-> id, by |-> by, tick |-> t]),
                       !.reactors[id].doneAt = IF newlyDone THEN n ELSE @]

\* entity_mut(entity).insert(Initialized): the marker is a flag of the entity;
\* the systems iterate over the Reactors present when they start.
insert_Initialized(st, id) == [st EXCEPT !.reactors[id].initialized = TRUE]

\* initialize_reactors, from Reactor i on
RECURSIVE initialize_from(_, _, _)
initialize_from(st, i, t) ==
    IF i > Len(st.reactors) THEN st
    ELSE IF ~st.reactors[i].initialized
         THEN initialize_from(run_sync(insert_Initialized(st, i), i, "initialize_reactors", t),
                              i + 1, t)
         ELSE initialize_from(st, i + 1, t)

\* initialize_reactors that marks the Reactors but does not drive them
RECURSIVE initialize_mark_only_from(_, _)
initialize_mark_only_from(st, i) ==
    IF i > Len(st.reactors) THEN st
    ELSE initialize_mark_only_from(insert_Initialized(st, i), i + 1)

initialize_reactors_mark_only(st, t) == initialize_mark_only_from(st, 1)

\* initialize_reactors that drives the Reactors but does not mark them
RECURSIVE initialize_no_mark_from(_, _, _)
initialize_no_mark_from(st, i, t) ==
    IF i > Len(st.reactors) THEN st
    ELSE IF ~st.reactors[i].initialized
         THEN initialize_no_mark_from(run_sync(st, i, "initialize_reactors", t), i + 1, t)
         ELSE initialize_no_mark_from(st, i + 1, t)

initialize_reactors_no_mark(st, t) == initialize_no_mark_from(st, 1, t)

initialize_reactors(st, t) == initialize_from(st, 1, t)

\* a loop body that drives only the Reactors not yet Initialized
run_reactor_skip_initialized(st, i, t) ==
    IF st.reactors[i].initialized THEN st
    ELSE run_sync(insert_Initialized(run_sync(st, i, "run_reactors", t), i),
                  i, "run_reactors", t)

\* a loop body without the second run_sync
run_reactor_single(st, i, t) ==
    insert_Initialized(run_sync(st, i, "run_reactors", t), i)

\* the loop body of run_reactors for Reactor i
run_reactor(st, i, t) ==
    LET initialized == st.reactors[i].initialized
        first == run_sync(st, i, "run_reactors", t)
    IN  IF ~initialized
        THEN run_sync(insert_Initialized(first, i), i, "run_reactors", t)
        ELSE first

RECURSIVE run_from(_, _, _)
run_from(st, i, t) ==
    IF i > Len(st.reactors) THEN st
    ELSE run_from(run_reactor(st, i, t), i + 1, t)

\* run_reactors as two loops: every Reactor is driven once, then the Reactors
\* without the marker are marked and driven a second time
RECURSIVE run_first_pass(_, _, _)
run_first_pass(st, i, t) ==
    IF i > Len(st.reactors) THEN st
    ELSE run_first_pass(run_sync(st, i, "run_reactors", t), i + 1, t)

RECURSIVE run_second_pass(_, _, _)
run_second_pass(st, i, t) ==
    IF i > Len(st.reactors) THEN st
    ELSE run_second_pass(
             IF st.reactors[i].initialized THEN st
             ELSE run_sync(insert_Initialized(st, i), i, "run_reactors", t),
             i + 1, t)

run_reactors_two_passes(st, t) == run_second_pass(run_first_pass(st, 1, t), 1, t)

\* run_reactors: the loop over the query, in its iteration order
run_reactors(st, t) == run_from(st, 1, t)

\* spawn_initialized_reactor spawning the driven Reactor without the
\* Initialized marker
spawn_initialized_reactor_unmarked(st, prog, at, t) ==
    LET id == Len(st.reactors) + 1
        flurx == [Reactor_schedule(prog, at, t) EXCEPT !.spawn.marked = TRUE]
    IN  run_sync([st EXCEPT !.reactors = Append(@, flurx)], id,
                 "spawn_initialized_reactor", t)

\* World::spawn_initialized_reactor (also what Commands queues)
spawn_initialized_reactor(st, prog, at, t) ==
    LET id == Len(st.reactors) + 1
        flurx == [Reactor_schedule(prog, at, t) EXCEPT !.spawn.marked = TRUE]
        ran == run_sync([st EXCEPT !.reactors = Append(@, flurx)], id,
                        "spawn_initialized_reactor", t)
    IN  insert_Initialized(ran, id)

\* commands.spawn(Reactor::schedule(f))
spawn_reactor(st, prog, at, t) ==
    [st EXCEPT !.reactors = Append(@, Reactor_schedule(prog, at, t))]

\* The system run on a label: every Runner registered on it is run once, in
\* registration order; a Runner that finishes hands its Output to the waiting
\* selector and is removed. es are the entries still to run, kept the entries
\* that stay registered.
RECURSIVE run_runners(_, _, _, _, _, _)
run_runners(es, kept, rs, w, log, t) ==
    IF es = <<>> THEN [entries |-> kept, reactors |-> rs, world |-> w]
    ELSE LET e == Head(es)
             res == Run(e.runner, w, e.owner, Token0)
             pc == rs[e.owner].pc
         IN  IF res.fin
             THEN run_runners(Tail(es), kept,
                      [rs EXCEPT ![e.owner].output = res.runner.output,
                                 ![e.owner].finAt[pc] =
                                     [tick |-> t, drives |-> Drives(log, e.owner)]],
                      res.world, log, t)
             ELSE run_runners(Tail(es), Append(kept, [e EXCEPT !.runner = res.runner]),
                      rs, res.world, log, t)

\* RunReactor inserted after First instead of after Last
NextSched_after_First(s) ==
    CASE s = "Startup" -> "PostStartup"
      [] s = "PostStartup" -> "First"
      [] s = "First" -> "RunReactor"
      [] s = "RunReactor" -> "Update"
      [] s = "Update" -> "Last"
      [] s = "Last" -> "Idle"

\* FlurxPlugin::build: RunReactor is inserted after Last in the Main schedule
\* order; Startup and PostStartup run in the first update only.
NextSched(s) ==
    CASE s = "Startup" -> "PostStartup"
      [] s = "PostStartup" -> "First"
      [] s = "First" -> "Update"
      [] s = "Update" -> "Last"
      [] s = "Last" -> "RunReactor"
      [] s = "RunReactor" -> "Idle"

Bundle == [reactors |-> reactors, registry |-> registry, share |-> share, log |-> driveLog]

Unbundle(st) ==
    /\ reactors' = st.reactors
    /\ registry' = st.registry
    /\ share' = st.share
    /\ driveLog' = st.log

Init ==
    /\ hPc = "start"
    /\ hAction = OnceRun
    /\ hRunner = None
    /\ hWorld = World0
    /\ hRets = <<>>
    /\ hCalls = <<>>
    /\ hToken = Token0
    /\ sched = "Idle"
    /\ tick = 0
    /\ reactors = <<>>
    /\ registry = [l \in Labels |-> <<>>]
    /\ world = World0
    /\ share = {}
    /\ driveLog = <<>>
    /\ cells = <<>>
    /\ built = <<>>
    /\ writes = <<>>

\* App::update begins
AppUpdate ==
    /\ sched = "Idle"
    /\ tick < MaxTicks
    /\ tick' = tick + 1
    /\ sched' = IF tick = 0 THEN "Startup" ELSE "First"
    /\ UNCHANGED <<reactors, registry, world, share, driveLog>>
    /\ UNCHANGED hvars
    /\ UNCHANGED mvars

\* app.insert_state(TestState::Phase2), between two updates, by a test whose
\* Reactor waits for that state
InsertState ==
    /\ sched = "Idle"
    /\ tick >= 1
    /\ world.state = "Phase1"
    /\ \E l \in Labels : \E k \in 1..Len(registry[l]) : registry[l][k].runner.kind = "becomes"
    /\ world' = [world EXCEPT !.state = "Phase2"]
    /\ UNCHANGED <<sched, tick, reactors, registry, share, driveLog>>
    /\ UNCHANGED hvars
    /\ UNCHANGED mvars

\* how a system of a test spawns a Reactor
SpawnKinds == {"spawn", "spawn_initialized_reactor"}

Spawn(st, kind, prog, at, t) ==
    IF kind = "spawn" THEN spawn_reactor(st, prog, at, t)
    ELSE spawn_initialized_reactor(st, prog, at, t)

RECURSIVE SpawnAll(_, _, _, _)
SpawnAll(st, specs, at, t) ==
    IF specs = <<>> THEN st
    ELSE SpawnAll(Spawn(st, Head(specs).kind, Head(specs).prog, at, t), Tail(specs), at, t)

SpawnSpecs == [kind : SpawnKinds, prog : Programs]

\* The Startup systems of the tests: each spawns a Reactor.
Startup ==
    /\ sched = "Startup"
    /\ \E specs \in SeqsUpTo(SpawnSpecs, MaxReactors) :
           Unbundle(SpawnAll(Bundle, specs, "Startup", tick))
    /\ sched' = NextSched(sched)
    /\ UNCHANGED <<tick, world>>
    /\ UNCHANGED hvars
    /\ UNCHANGED mvars

\* PostStartup: initialize_reactors
PostStartup ==
    /\ sched = "PostStartup"
    /\ Unbundle(initialize_reactors(Bundle, tick))
    /\ sched' = NextSched(sched)
    /\ UNCHANGED <<tick, world>>
    /\ UNCHANGED hvars
    /\ UNCHANGED mvars

\* First and Update: the Runners registered on the label are run
RunLabel(l) ==
    /\ sched = l
    /\ LET res == run_runners(registry[l], <<>>, reactors, world, driveLog, tick)
       IN  /\ registry' = [registry EXCEPT ![l] = res.entries]
           /\ reactors' = res.reactors
           /\ world' = res.world
    /\ sched' = NextSched(sched)
    /\ UNCHANGED <<tick, share, driveLog>>
    /\ UNCHANGED hvars
    /\ UNCHANGED mvars

First == RunLabel("First")

Update == RunLabel("Update")

MidSpawnSpecs == [kind : SpawnKinds, prog : MidPrograms]

\* Last: the systems of the application may spawn Reactors in mid-cycle, one
\* or two in the same update
Last ==
    /\ sched = "Last"
    /\ \/ UNCHANGED <<reactors, registry, share, driveLog>>
       \/ \E specs \in SeqsUpTo(MidSpawnSpecs, 2) :
             /\ specs # <<>>
             /\ Len(reactors) + Len(specs) <= MaxReactors
             /\ Unbundle(SpawnAll(Bundle, specs, "Last", tick))
    /\ sched' = NextSched(sched)
    /\ UNCHANGED <<tick, world>>
    /\ UNCHANGED hvars
    /\ UNCHANGED mvars

\* RunReactor: run_reactors
RunReactor ==
    /\ sched = "RunReactor"
    /\ Unbundle(run_reactors(Bundle, tick))
    /\ sched' = NextSched(sched)
    /\ UNCHANGED <<tick, world>>
    /\ UNCHANGED hvars
    /\ UNCHANGED mvars

Next ==
    \/ AppUpdate
    \/ InsertState
    \/ Startup
    \/ PostStartup
    \/ First
    \/ Update
    \/ Last
    \/ RunReactor

Spec == Init /\ [][Next]_vars

\* ============================================================ properties
\* ------------------------------------------------ wait::any, delay::frames
\* The poll on which a candidate first returns finished, by its contract:
\* delay::frames().with(n) on poll max(n, 1), a once action on poll 1,
\* wait::until(|| false) never (0).
FinishPoll(a) ==
    CASE a.kind = "frames" -> IF a.arg = 0 THEN 1 ELSE a.arg
      [] a.kind = "until_false" -> 0
      [] OTHER -> 1

\* min(d) over the candidates that finish at all; 0 when none does
MinFinish(as) ==
    LET ds == {FinishPoll(as[i]) : i \in 1..Len(as)} \ {0}
    IN  IF ds = {} THEN 0 ELSE CHOOSE d \in ds : \A e \in ds : d <= e

\* the smallest 0-based index i with d_i = min(d)
Winner(as) ==
    LET m == MinFinish(as)
        is == {i \in 1..Len(as) : FinishPoll(as[i]) = m}
    IN  (CHOOSE i \in is : \A j \in is : i <= j) - 1

\* C1: the race runner returns false on its ticks 1..min(d)-1, true on tick
\* min(d), and its Output then holds the smallest index i with d_i = min(d).
C1_EarliestLowestIndexWins ==
    (hPc = "ready" /\ hAction.kind = "any") =>
        LET m == MinFinish(hAction.actions)
        IN  /\ \A k \in 1..Len(hRets) :
                   /\ (m = 0 \/ k < m) => ~hRets[k]
                   /\ (k = m) => hRets[k]
            /\ (m # 0 /\ Len(hRets) >= m) =>
                   hRunner[1].output = Some(Winner(hAction.actions))

\* a tie on the second tick between candidates 1 and 2 was won by candidate 1
C1_Witness ==
    /\ hAction = AnyAction(<<FramesAction(3), FramesAction(2), FramesAction(2)>>)
    /\ hRets = <<FALSE, TRUE>>
    /\ hRunner[1].output = Some(1)

\* C2: once a candidate Runner has returned true, no candidate is invoked
\* again: it is the last candidate invoked in its tick, and no later call of
\* the race runner invokes any candidate.
C2_NoRunAfterFinish ==
    \A k \in 1..Len(hCalls) : \A j \in 1..Len(hCalls[k]) :
        hCalls[k][j].ret =>
            /\ j = Len(hCalls[k])
            /\ \A k2 \in (k + 1)..Len(hCalls) : hCalls[k2] = <<>>

\* a race of three was won by its first candidate and then run twice more
C2_Witness ==
    /\ hAction.kind = "any"
    /\ Len(hAction.actions) = 3
    /\ Len(hRets) >= 3
    /\ hRets[1]
    /\ hCalls[1] = <<[index |-> 0, ret |-> TRUE, token |-> 0]>>

\* C3: wait::any with zero candidates panics at construction: no race runner
\* is produced and nothing has been run.
C3_EmptyAnyPanics ==
    (hPc # "start" /\ hAction.kind = "any" /\ hAction.actions = <<>>) =>
        /\ hPc = "panicked"
        /\ hRunner = None
        /\ hRets = <<>>
        /\ hCalls = <<>>
    /\ hToken = Token0

C3_Witness == hPc = "panicked" /\ hAction = AnyAction(<<>>)

\* C4: for N >= 1 the k-th poll of the runner of delay::frames().with(N)
\* returns false for every k < N and true for k = N.
C4_FramesCompletesOnTickN ==
    (hAction.kind = "frames" /\ hAction.arg >= 1) =>
        \A k \in 1..Len(hRets) : k <= hAction.arg => (hRets[k] <=> k = hAction.arg)

C4_Witness ==
    /\ hAction = FramesAction(MaxFrames)
    /\ Len(hRets) = MaxFrames
    /\ hRets[MaxFrames]

\* --------------------------------------------------- Reactors and the App
ReactorIds == 1..Len(reactors)

\* Reactor id was spawned by a Startup system
InStartup(id) == reactors[id].spawn.at = "Startup"

\* Reactor id sent an AppExit event
Sent(id) == \E k \in 1..Len(world.events) : world.events[k] = id

\* the effect of the once action B awaited by Reactor id: the AppExit
\* resource inserted by once::non_send::init, or the AppExit event sent
Effect(id) ==
    IF reactors[id].prog[2].action = OnceInit THEN id \in world.non_send ELSE Sent(id)

\* the coroutine awaits an action A and then a once action B on Update
AwaitsThenOnce(id) ==
    /\ Len(reactors[id].prog) = 2
    /\ reactors[id].prog[2].op \in {"will", "will_if"}
    /\ reactors[id].prog[2].label = "Update"
    /\ reactors[id].prog[2].action \in {OnceInit, OnceSend}

\* if A finishes during tick k, B's effect is absent at the end of every
\* tick up to k and present at the end of tick k + 1 and later
EffectOneTickAfter(id) ==
    LET k == reactors[id].finAt[1].tick
    IN  /\ (k = 0 \/ tick <= k) => ~Effect(id)
        /\ (k # 0 /\ tick >= k + 1) => Effect(id)

\* with A = delay::frames().with(n) on First: absent after updates 1..n,
\* present after update n + 1
EffectAfterFrames(id, n) ==
    reactors[id].prog = ProgDelayThenInit("First", n) =>
        /\ tick \in 1..n => ~Effect(id)
        /\ tick >= n + 1 => Effect(id)

\* C5 as stated, for every frame count N >= 0
C5_Original ==
    sched = "Idle" =>
        \A id \in ReactorIds : (InStartup(id) /\ AwaitsThenOnce(id)) =>
            /\ EffectOneTickAfter(id)
            /\ \A n \in 0..MaxFrames : EffectAfterFrames(id, n)

\* C5 (amended): for a Reactor spawned in Startup that awaits A and then a
\* once action B on Update, B's effect is absent at the end of the tick in
\* which A finishes and present at the end of the next; with
\* A = delay::frames().with(N) on First and N >= 1 it is absent after updates
\* 1..N and present after update N + 1.
C5_EffectOneTickAfterA ==
    sched = "Idle" =>
        \A id \in ReactorIds : (InStartup(id) /\ AwaitsThenOnce(id)) =>
            /\ EffectOneTickAfter(id)
            /\ \A n \in 1..MaxFrames : EffectAfterFrames(id, n)

\* delay_2frames after its third update
C5_Witness ==
    /\ sched = "Idle"
    /\ tick = 3
    /\ \E id \in ReactorIds :
           /\ InStartup(id)
           /\ ~reactors[id].spawn.marked
           /\ reactors[id].prog = ProgDelayThenInit("First", 2)
           /\ reactors[id].finAt[1].tick = 2
           /\ Effect(id)

\* C6: a Reactor registered in Startup that awaits once::run on Update has
\* executed the code after the await when the first update returns.
C6_ContinuesInFirstFrame ==
    (sched = "Idle" /\ tick >= 1) =>
        \A id \in ReactorIds :
            (InStartup(id) /\ reactors[id].prog = ProgOnceThenSet) => id \in share

C6_Witness ==
    /\ sched = "Idle"
    /\ tick = 1
    /\ \E id \in ReactorIds :
           /\ InStartup(id)
           /\ reactors[id].spawn.marked
           /\ reactors[id].prog = ProgOnceThenSet
           /\ id \in share

\* the coroutine awaits a single action, which finishes on its first run
AwaitsSingleOnce(id) == reactors[id].prog \in {ProgSend, ProgOnceThenSet}

PlainInStartup(id) == InStartup(id) /\ ~reactors[id].spawn.marked

\* C8: a Reactor spawned without Initialized in Startup is driven exactly
\* once by initialize_reactors in PostStartup, which marks it Initialized,
\* exactly once by run_reactors in the first tick, and exactly once in every
\* later tick.
C8_DoubleDriveAtStartup ==
    \A id \in ReactorIds : PlainInStartup(id) =>
        LET n == Drives(driveLog, id)
        IN  /\ sched = "PostStartup" => (n = 0 /\ ~reactors[id].initialized)
            /\ sched \notin {"Startup", "PostStartup"} =>
                   /\ reactors[id].initialized
                   /\ CountBy(driveLog, id, "initialize_reactors", 0) = 1
                   /\ CountBy(driveLog, id, "initialize_reactors", 1) = 1
                   /\ CountBy(driveLog, id, "spawn_initialized_reactor", 0) = 0
            /\ (tick = 1 /\ sched \in {"First", "Update", "Last", "RunReactor"}) => n = 1
            /\ sched = "Idle" =>
                   /\ n = tick + 1
                   /\ \A u \in 1..tick : CountBy(driveLog, id, "run_reactors", u) = 1

C8_Witness ==
    /\ sched = "Idle"
    /\ tick = 3
    /\ \E id \in ReactorIds : PlainInStartup(id) /\ Drives(driveLog, id) = 4

\* Reactor id first appeared in mid-cycle, without the Initialized marker
PlainInMidCycle(id) == reactors[id].spawn.at = "Last" /\ ~reactors[id].spawn.marked

\* C9 as stated: at most one drive in the tick of first appearance
C9_Original ==
    \A id \in ReactorIds : PlainInMidCycle(id) =>
        CountBy(driveLog, id, "", reactors[id].spawn.tick) <= 1

\* C9 (amended): a Reactor that first appears in mid-cycle without
\* Initialized is driven exactly twice in the tick in which it appears, both
\* times by run_reactors, which marks it Initialized between the two drives;
\* in every later tick it is driven exactly once.
C9_TwoDrivesOnFirstAppearance ==
    \A id \in ReactorIds : PlainInMidCycle(id) =>
        /\ CountBy(driveLog, id, "", 0) = CountBy(driveLog, id, "run_reactors", 0)
        /\ sched = "RunReactor" /\ tick = reactors[id].spawn.tick =>
               Drives(driveLog, id) = 0 /\ ~reactors[id].initialized
        /\ sched = "Idle" =>
               /\ reactors[id].initialized
               /\ CountBy(driveLog, id, "", reactors[id].spawn.tick) = 2
               /\ \A u \in (reactors[id].spawn.tick + 1)..tick :
                      CountBy(driveLog, id, "", u) = 1

C9_Witness ==
    /\ sched = "Idle"
    /\ \E id \in ReactorIds :
           /\ PlainInMidCycle(id)
           /\ tick = reactors[id].spawn.tick + 1
           /\ Drives(driveLog, id) = 3

\* Reactor id, but for the Initialized marker
Unmarked(re) == [re EXCEPT !.initialized = FALSE]

\* C10: once a Reactor's coroutine has completed, a step of the App (which
\* keeps driving it) leaves the Reactor Completed and unchanged, registers no
\* Runner for it and mutates nothing on its behalf.
C10_DriveAfterCompletionIsNoOp ==
    [][\A id \in ReactorIds : Completed(reactors[id]) =>
           /\ Unmarked(reactors'[id]) = Unmarked(reactors[id])
           /\ \A l \in Labels : \A k \in 1..Len(registry'[l]) : registry'[l][k].owner # id
           /\ (id \in share') = (id \in share)
           /\ (id \in world'.non_send) = (id \in world.non_send)
           /\ Len(SelectSeq(world'.events, LAMBDA o : o = id))
                  = Len(SelectSeq(world.events, LAMBDA o : o = id))
           /\ (/\ \A other \in ReactorIds : Completed(reactors[other])
               /\ Len(reactors') = Len(reactors)) =>
                  /\ registry' = registry
                  /\ share' = share
                  /\ world' = world]_vars

\* a completed Reactor has been driven again
C10_Witness ==
    \E id \in ReactorIds :
        /\ reactors[id].prog = ProgDelayThenInit("First", 1)
        /\ Completed(reactors[id])
        /\ Drives(driveLog, id) >= reactors[id].doneAt + 2

\* ------------------------------------------------------------------- C11
\* a step that is one run call of the Runner under test
IsRunCall == Len(hRets') = Len(hRets) + 1

\* C11: a run call made with a cancelled token reports non-completion and
\* leaves the World, the Runner's Output and (for the race) the race's
\* Output<usize> as they were; hence a Runner whose token is cancelled before
\* its first run call never returns true, and with wait::any no candidate
\* mutates the World.
C11_CancelledNeverCompletes ==
    [][(IsRunCall /\ hToken.cancelled) =>
          /\ ~hRets'[Len(hRets')]
          /\ hWorld' = hWorld
          /\ hRunner'[1].output = hRunner[1].output
          /\ hRunner'[1].output = None \/ HFinished]_vars

\* a race whose first candidate is once::event::send was called three times
\* and never won: the token was cancelled before the first call, every
\* candidate was still invoked in every call, and no event was sent
C11_Witness ==
    /\ hToken.cancelled
    /\ hAction.kind = "any"
    /\ Len(hAction.actions) >= 2
    /\ hAction.actions[1] = OnceSend
    /\ Len(hRets) >= 3
    /\ \A k \in 1..Len(hRets) : ~hRets[k] /\ Len(hCalls[k]) = Len(hAction.actions)
    /\ hWorld = World0
    /\ hRunner[1].output = None

\* ------------------------------------------------------------------- C12
\* number of AppExit events sent by Reactor id
SentCount(id) == Cardinality({k \in 1..Len(world.events) : world.events[k] = id})

\* the coroutine only awaits once::event::send on First
AwaitsSend(id) == reactors[id].prog = ProgSend

\* the schedules of the first update up to and including First, named by the
\* value of sched when they are about to run
BeforeFirstRan == {"Startup", "PostStartup", "First"}

\* C12: a Reactor scheduled in Startup that awaits once::event::send on First
\* has sent nothing before the First schedule of the first update ran, has
\* sent its event once that schedule has run, and never sends it again: the
\* number of its events is 1 from then on and its Runner is registered
\* nowhere.
C12_SentExactlyOnce ==
    \A id \in ReactorIds : (InStartup(id) /\ AwaitsSend(id)) =>
        /\ SentCount(id) <= 1
        /\ (tick = 1 /\ sched \in BeforeFirstRan) => SentCount(id) = 0
        /\ (tick >= 2 \/ (tick = 1 /\ sched \notin BeforeFirstRan)) =>
              /\ SentCount(id) = 1
              /\ \A l \in Labels : \A k \in 1..Len(registry[l]) : registry[l][k].owner # id

\* MaxTicks updates have been made and the event of a Reactor scheduled with
\* spawn_initialized_reactor in Startup is in the World exactly once
C12_Witness ==
    /\ sched = "Idle"
    /\ tick = MaxTicks
    /\ \E id \in ReactorIds :
          /\ InStartup(id)
          /\ reactors[id].spawn.marked
          /\ AwaitsSend(id)
          /\ SentCount(id) = 1

\* ------------------------------------------------------------------- C13
\* the coroutine awaits wait::state::becomes().with(Phase2) and then an action
AwaitsBecomes(id) == reactors[id].prog = ProgBecomesThenInit

\* the Runner of Reactor id's wait::state::becomes is registered on First
BecomesRegistered(id) ==
    \E k \in 1..Len(registry["First"]) :
        /\ registry["First"][k].owner = id
        /\ registry["First"][k].runner.kind = "becomes"

\* C13: when the First schedule runs, the registered Runner of
\* wait::state::becomes().with(Phase2) completes in that poll if and only if
\* the current state is Phase2 (so it completes on the first poll at which
\* the state equals expect and on none before), and the coroutine is at its
\* next action only in a World whose state has become Phase2.
C13_BecomesCompletesWhenStateEquals ==
    [][\A id \in ReactorIds : AwaitsBecomes(id) =>
          /\ (BecomesRegistered(id) /\ sched = "First" /\ sched' = "Update") =>
                /\ (reactors'[id].finAt[1].tick = tick) <=> (world.state = "Phase2")
                /\ (reactors'[id].output # None) <=> (world.state = "Phase2")
          /\ reactors'[id].pc >= 2 => world'.state = "Phase2"
          /\ reactors'[id].finAt[1].tick # 0 => world'.state = "Phase2"]_vars

\* the state was inserted after the second update: the polls of updates 1
\* and 2 did not complete, the poll of update 3 did, and the action after the
\* wait has had its effect
C13_Witness ==
    \E id \in ReactorIds :
        /\ AwaitsBecomes(id)
        /\ reactors[id].finAt[1].tick = 3
        /\ world.state = "Phase2"
        /\ id \in world.non_send

\* ------------------------------------------------------------------- C14
\* Reactor id was spawned with spawn_initialized_reactor
SpawnedInitialized(id) == reactors[id].spawn.marked

\* run_reactors of tick u has run
RunReactorsDone(u) == u < tick \/ (u = tick /\ sched = "Idle")

\* C14: a Reactor spawned with spawn_initialized_reactor is driven exactly
\* once by the spawn call, in the tick of the spawn and before any other
\* drive, and is stored marked Initialized; initialize_reactors never drives
\* it, and run_reactors drives it exactly once in every tick from the tick of
\* the spawn on, never twice.
C14_SpawnInitializedDrivenOncePerTick ==
    \A id \in ReactorIds : SpawnedInitialized(id) =>
        /\ reactors[id].initialized
        /\ CountBy(driveLog, id, "spawn_initialized_reactor", 0) = 1
        /\ CountBy(driveLog, id, "spawn_initialized_reactor", reactors[id].spawn.tick) = 1
        /\ \A k \in 1..Len(driveLog) :
              (driveLog[k].reactor = id /\ driveLog[k].by # "spawn_initialized_reactor") =>
                  \E j \in 1..(k - 1) : /\ driveLog[j].reactor = id
                                        /\ driveLog[j].by = "spawn_initialized_reactor"
        /\ CountBy(driveLog, id, "initialize_reactors", 0) = 0
        /\ \A u \in 1..tick :
              CountBy(driveLog, id, "run_reactors", u) =
                  IF u >= reactors[id].spawn.tick /\ RunReactorsDone(u) THEN 1 ELSE 0

\* a Reactor spawned with spawn_initialized_reactor in Startup and another
\* spawned with it in mid-cycle have both been through run_reactors in later
\* ticks
C14_Witness ==
    /\ sched = "Idle"
    /\ tick >= 3
    /\ \E id \in ReactorIds :
          /\ SpawnedInitialized(id)
          /\ InStartup(id)
          /\ CountBy(driveLog, id, "run_reactors", 0) = tick
    /\ \E id \in ReactorIds :
          /\ SpawnedInitialized(id)
          /\ reactors[id].spawn.at = "Last"
          /\ reactors[id].spawn.tick < tick
          /\ CountBy(driveLog, id, "", reactors[id].spawn.tick) = 2

\* ------------------------------------------------------------------- C15
\* the drives made by run_reactors in tick u, in the order they were made
RECURSIVE RunReactorsDrives(_, _)
RunReactorsDrives(log, u) ==
    IF log = <<>> THEN <<>>
    ELSE (IF Head(log).by = "run_reactors" /\ Head(log).tick = u
          THEN <<Head(log).reactor>> ELSE <<>>) \o RunReactorsDrives(Tail(log), u)

\* C15: within one run_reactors the drives are grouped by Reactor and the
\* groups follow the iteration order of the query: once a later Reactor has
\* been driven no earlier Reactor is driven again in that tick, so both drives
\* of a Reactor without the marker come before the first drive of the next.
C15_NoInterleavingWithinTick ==
    \A u \in 1..tick :
        LET ds == RunReactorsDrives(driveLog, u)
        IN  \A i \in 1..Len(ds) : \A j \in (i + 1)..Len(ds) : ds[i] <= ds[j]

\* two Reactors were spawned in the same Last, the first without the
\* Initialized marker: run_reactors drove the first twice and then the second
C15_Witness ==
    \E u \in 1..tick :
        LET ds == RunReactorsDrives(driveLog, u)
        IN  /\ Len(ds) >= 3
            /\ ds[1] = 1 /\ ds[2] = 1 /\ ds[3] = 2
            /\ PlainInMidCycle(1)
            /\ reactors[2].spawn.tick = u
            /\ reactors[1].prog # <<>>

\* ------------------------------------------------------------------- C16
\* by the contracts of the actions: the poll on which an action finishes (0:
\* never) and the Output it then holds
FinishPollOf(a) == IF a.kind = "any" THEN MinFinish(a.actions) ELSE FinishPoll(a)
OutputOf(a) ==
    IF a.kind = "any" THEN Winner(a.actions)
    ELSE IF a.kind = "once_succ" THEN a.arg + 1 ELSE 0

\* C16: with A finishing on its poll m with Output y, the pipe runs A (and
\* not B) in each of its calls before m, runs A for the last time in call m,
\* runs only B, constructed from the seed bound to y, afterwards; it reports
\* finished exactly in the call in which B reports finished, and its Output
\* is then the Output of B for input y and is empty before.
C16_PipeRunsAThenB ==
    (hPc = "ready" /\ hAction.kind = "pipe") =>
        LET m == FinishPollOf(hAction.first)
            y == OutputOf(hAction.first)
            B == With(hAction.seed, y)
        IN  /\ \A k \in 1..Len(hRets) :
                  LET c == hCalls[k]
                  IN  /\ (m = 0 \/ k < m) => c = <<Stage(0, FALSE, hToken)>>
                      /\ k = m => /\ c[1] = Stage(0, TRUE, hToken)
                                  /\ \A j \in 2..Len(c) : c[j].index = 1
                                  /\ Len(c) = IF hAction.same_call THEN 2 ELSE 1
                      /\ (m # 0 /\ k > m) => Len(c) = 1 /\ c[1].index = 1
                      /\ hRets[k] <=> (c[Len(c)].index = 1 /\ c[Len(c)].ret)
            /\ HFinished => hRunner[1].output = Some(OutputOf(B))
            /\ ~HFinished => hRunner[1].output = None
            /\ (m # 0 /\ Len(hRets) >= m) =>
                  /\ hRunner[1].second # None
                  /\ hRunner[1].second[1].arg = y
            /\ (m = 0 \/ Len(hRets) < m) => hRunner[1].second = None

\* a race that a candidate of index y >= 1 wins on its second or a later poll
\* was piped into once_succ, and the pipe finished with Output y + 1
C16_Witness ==
    /\ hPc = "ready"
    /\ hAction.kind = "pipe"
    /\ hAction.first.kind = "any"
    /\ Winner(hAction.first.actions) >= 1
    /\ MinFinish(hAction.first.actions) >= 2
    /\ hAction.seed = "once_succ"
    /\ HFinished
    /\ hRunner[1].output = Some(Winner(hAction.first.actions) + 1)

\* ------------------------------------------------------------------- C17
\* C17: every run call of the switch runs exactly the branch selected by the
\* value the flag has at that call and leaves the other branch as it was,
\* whatever branch earlier calls ran and whatever progress that branch made.
C17_SwitchFollowsFlag ==
    [][(IsRunCall /\ hAction.kind = "switch") =>
          LET c == hCalls'[Len(hCalls')]
              flag == hRunner[1].flag
          IN  /\ Len(c) = 1
              /\ c[1].index = flag
              /\ hRunner'[1].branches[2 - flag] = hRunner[1].branches[2 - flag]
              /\ hRunner'[1].flag = flag]_vars

\* branch 0 (delay::frames().with(3)) was run once and is unfinished, the
\* flag was toggled, and the next call ran branch 1
C17_Witness ==
    /\ hPc = "ready"
    /\ hAction.kind = "switch"
    /\ hAction.branches[1] = FramesAction(3)
    /\ Len(hCalls) >= 2
    /\ hCalls[1][1].index = 0 /\ ~hCalls[1][1].ret
    /\ hCalls[2][1].index = 1
    /\ hRunner[1].branches[1].frame_now = 1

\* ------------------------------------------------------------------- C18
\* every candidate Runner of the race has an Output cell of its own: none is
\* the race's Output<usize> and no two candidates share one
OwnOutputs(r) ==
    \A i \in 1..Len(r.runners) :
        /\ r.runners[i].slot # r.slot
        /\ \A j \in 1..Len(r.runners) : i # j => r.runners[i].slot # r.runners[j].slot

\* the race runner as constructed: one Runner per candidate action, in order
\* (they are dropped when the race is won)
OnePerCandidate ==
    ~HFinished =>
        /\ Len(hRunner[1].runners) = Len(hAction.actions)
        /\ \A i \in 1..Len(hAction.actions) :
              hRunner[1].runners[i].kind = hAction.actions[i].kind

\* C18 as stated: every candidate is run with a token of its own, a child of
\* the race's token and not that token itself
C18_Original ==
    (hPc = "ready" /\ hAction.kind = "any") =>
        /\ OnePerCandidate
        /\ OwnOutputs(hRunner[1])
        /\ \A k \in 1..Len(hCalls) : \A j \in 1..Len(hCalls[k]) :
              hCalls[k][j].token # hToken.id

\* C18 (amended): wait::any builds one Runner per candidate at construction
\* time, each with an Output cell of its own; it creates no token: every
\* candidate is run with the very token the race was run with.
C18_OwnOutputSharedToken ==
    (hPc = "ready" /\ hAction.kind = "any") =>
        /\ OnePerCandidate
        /\ OwnOutputs(hRunner[1])
        /\ \A k \in 1..Len(hCalls) : \A j \in 1..Len(hCalls[k]) :
              hCalls[k][j].token = hToken.id

\* a race of MaxCand candidates has been run twice without a winner: its
\* Runners are still held and each was run with the race's token
C18_Witness ==
    /\ hPc = "ready"
    /\ hAction.kind = "any"
    /\ Len(hRunner[1].runners) = MaxCand
    /\ Len(hCalls) = 2
    /\ \A k \in 1..2 : Len(hCalls[k]) = MaxCand
    /\ {hRunner[1].runners[i].slot : i \in 1..MaxCand} = 1..MaxCand

\* ------------------------------------------------------------------- C19
\* what remake wired into the i-th constructed Runner of a state
Wired(bs, i, token) ==
    LET c == bs[i].runner
    IN  /\ c.o1 > bs[i].at.cells
        /\ c.o1 # c.output
        /\ c.inner.slot = c.o1
        /\ c.inner_token = c.token
        /\ c.token = token.id
        /\ \A j \in 1..Len(bs) :
              j # i => c.o1 \notin {bs[j].runner.o1, bs[j].runner.output}

\* C19: every construction of a remade action creates a new Output cell o1,
\* empty and in no earlier construction's hands, gives that very cell to the
\* inner Runner and to the wrapper, and gives both the token it was given;
\* the inner Runner only ever sets o1, never a composed Output; what the
\* wrapper takes out of o1 is what its own inner Runner has just set; and the
\* construction step runs nothing: the World, the other cells, the other
\* Runners and the access history are as before and the inner Runner has not
\* been polled.
C19_RemakeWiresFreshOutput ==
    [][/\ \A i \in 1..Len(built') : Wired(built', i, hToken)
       /\ \A k \in 1..Len(writes') :
             LET e == writes'[k]
             IN  /\ e.by = "inner" =>
                       /\ e.cell = built'[e.con].runner.o1
                       /\ \A i \in 1..Len(built') : e.cell # built'[i].runner.output
                 /\ e.by = "take" =>
                       /\ k > 1
                       /\ writes'[k - 1] = [cell |-> e.cell, by |-> "inner", con |-> e.con]
       /\ Len(built') = Len(built) + 1 =>
             LET c == built'[Len(built')].runner
             IN  /\ cells'[c.o1] = None
                 /\ cells'[c.output] = None
                 /\ c.inner.frame_now = 0
                 /\ c.calls = 0
                 /\ hWorld' = hWorld
                 /\ writes' = writes
                 /\ \A i \in 1..Len(built) : built'[i] = built[i]
                 /\ \A k \in 1..Len(cells) : cells'[k] = cells[k]]_vars

\* two remade actions were constructed, the second after the first had
\* finished, and both have finished: each inner Runner set its own o1 and each
\* wrapper moved the value to its composed Output
C19_Witness ==
    /\ Len(built) = 2
    /\ built[2].at.writes > 0
    /\ built[1].runner.done /\ built[2].runner.done
    /\ built[1].action = With("once_succ", 1)
    /\ cells[built[1].runner.output] = Some(2)
    /\ cells[built[2].runner.output] # None
    /\ cells[built[1].runner.o1] = None /\ cells[built[2].runner.o1] = None

\* ------------------------------------------------------------------- C20
\* the race was won in call k
WonIn(k) == hRets[k]

\* the race had not been won before call k
NotWonBefore(k) == \A j \in 1..(k - 1) : ~hRets[j]

\* C20: in the call in which candidate w wins, the candidates 0..w are run
\* once each in index order, those before w returned false, w returned true
\* and no candidate after w is run; in every call before the win every
\* candidate is run exactly once, in index order, and returned false, so that
\* after K such calls every delay::frames candidate has counted K frames.
C20_RunsPerTick ==
    (hPc = "ready" /\ hAction.kind = "any") =>
        LET n == Len(hAction.actions)
        IN  /\ \A k \in 1..Len(hRets) :
                  LET c == hCalls[k]
                  IN  /\ \A j \in 1..Len(c) : c[j].index = j - 1
                      /\ WonIn(k) =>
                            /\ Len(c) = hRunner[1].output[1] + 1
                            /\ \A j \in 1..Len(c) : c[j].ret <=> (j = Len(c))
                      /\ (~WonIn(k) /\ NotWonBefore(k)) =>
                            /\ Len(c) = n
                            /\ \A j \in 1..n : ~c[j].ret
            /\ ~HFinished =>
                  \A i \in 1..n : hAction.actions[i].kind = "frames" =>
                      hRunner[1].runners[i].frame_now = Len(hRets)

\* a race of three candidates in which nobody won the first call and the
\* middle candidate won the second: call 1 ran all three, call 2 ran
\* candidates 0 and 1 only
C20_Witness ==
    /\ hPc = "ready"
    /\ hAction.kind = "any"
    /\ Len(hAction.actions) = 3
    /\ Len(hRets) = 2
    /\ ~hRets[1] /\ hRets[2]
    /\ Len(hCalls[1]) = 3
    /\ Len(hCalls[2]) = 2
    /\ hRunner[1].output = Some(1)

\* ------------------------------------------------------------------- C21
\* the calls of the race runner that returned true, in a history of results
WinningCalls(rets) == {k \in 1..Len(rets) : rets[k]}

\* the Output of race runner r agrees with the history of its run calls
OutputFollowsResults(r, rets, calls) ==
    /\ WinningCalls(rets) = {} => r.output = None
    /\ Cardinality(WinningCalls(rets)) <= 1
    /\ \A k \in WinningCalls(rets) :
          LET c == calls[k]
          IN  /\ c # <<>>
              /\ c[Len(c)].ret
              /\ r.output = Some(c[Len(c)].index)
              /\ r.runners = <<>>
              /\ \A j \in (k + 1)..Len(rets) : ~rets[j] /\ calls[j] = <<>>

\* C21: the Output<usize> of the race runner is empty as long as every run
\* call returned false; the call that returns true sets it to the index of
\* the candidate that returned true in that call; every later call invokes
\* no candidate, returns false, leaves the World alone and leaves the Output
\* holding the winner's index.
C21_OutputSetExactlyWhenFinished ==
    [][(hPc' = "ready" /\ hAction.kind = "any") =>
          /\ OutputFollowsResults(hRunner'[1], hRets', hCalls')
          /\ (IsRunCall /\ HFinished) =>
                /\ hRunner'[1].output = hRunner[1].output
                /\ hWorld' = hWorld
                /\ ~hRets'[Len(hRets')]
                /\ hCalls'[Len(hCalls')] = <<>>]_vars

\* candidate 2 of three won the second call and the race runner was called
\* three more times
C21_Witness ==
    /\ hPc = "ready"
    /\ hAction.kind = "any"
    /\ Len(hAction.actions) = 3
    /\ WinningCalls(hRets) = {2}
    /\ Len(hRets) = MaxCalls
    /\ hRunner[1].output = Some(2)
    /\ hCalls[MaxCalls] = <<>>

====
